---- MODULE Spec2Model ----
(***************************************************************************)
(* State-machine model of the red-v-blue replication demos:                *)
(*   src/replicant_v1.2.py         (class WormDemo, validate_cfg, main)    *)
(*   src/legacy/replicant_v1.1.py  (cmd_init, cmd_demo, cmd_cleanup, ...)  *)
(*                                                                         *)
(* The state is the file system seen from the working directory, plus the  *)
(* position and locals of each running invocation (one OS process per      *)
(* command line).  Every file-system call of the code is one step.         *)
(***************************************************************************)
EXTENDS Integers, Sequences, FiniteSets, TLC

VARIABLES
    tool,   \* which script the command lines run: "v1.2" or "v1.1"
    cfg,    \* the CFG / w dictionary (module constant of the script)
    fs,     \* file system: absolute path -> [kind, data]
    pc,     \* per process: position in the running invocation
    loc,    \* per process: arguments and local variables
    res,    \* per process: exit status and last decisive log line
    pre,    \* per process: the file system when the invocation started
    prev,   \* TRUE iff the last completed step was a cleanup that exited 0
    faulted \* TRUE once an interrupt or an I/O error has been injected

vars == <<tool, cfg, fs, pc, loc, res, pre, prev, faulted>>

\* what no step of a process changes
env == <<tool, cfg, faulted>>

----------------------------------------------------------------------------
(* Bounds of the model                                                      *)

\* CFG["limit"] used by the model
Limit == 1
\* CFG["host_count"] used by the model
HostCount == 2
\* number of distinct values random.randint may return
MaxRand == 2
\* number of distinct names tempfile.NamedTemporaryFile may pick
MaxTmp == 2

\* replication is capped here so that the index stays bounded
MaxIdx == Limit + 1

Procs == {1, 2}

----------------------------------------------------------------------------
(* Configuration values.  A value of the dictionary carries its Python     *)
(* type, so that the isinstance checks of validate_cfg have something to   *)
(* decide.                                                                  *)

StrVal(s) == [t |-> "str", s |-> s, n |-> 0]
IntVal(n) == [t |-> "int", s |-> "", n |-> n]
NoneVal == [t |-> "none", s |-> "", n |-> 0]

CFG ==
    [sandbox     |-> StrVal("sandbox_w"),
     replica_dir |-> StrVal("replicas"),
     hosts_root  |-> StrVal("hosts"),
     host_count  |-> IntVal(HostCount),
     limit       |-> IntVal(Limit),
     marker      |-> StrVal("STOP"),
     logfile     |-> StrVal("w_demo.log")]

RESERVED_NAMES == {"CON", "PRN", "AUX", "NUL", "COM1", "LPT1"}

NameKeys == {"sandbox", "replica_dir", "hosts_root", "marker", "logfile"}

\* The characters of a name.  A run of ordinary characters is one symbol;
\* the characters the code looks for are kept apart.
Chars(s) ==
    CASE s = ""     -> <<>>
      [] s = "."    -> <<".">>
      [] s = ".."   -> <<".", ".">>
      [] s = "a/b"  -> <<"a", "/", "b">>
      [] s = "a\\b" -> <<"a", "\\", "b">>
      [] OTHER      -> <<s>>

HasSeparator(s) == \E k \in 1..Len(Chars(s)) : Chars(s)[k] \in {"/", "\\"}

\* validate_cfg: TRUE iff no ValueError (or TypeError) is raised
validate_cfg(c) ==
    /\ c.limit.t = "int" /\ c.limit.n >= 0
    /\ c.host_count.t = "int" /\ c.host_count.n >= 0 /\ c.host_count.n <= 10
    /\ \A k \in NameKeys :
          /\ c[k].t = "str"
          /\ c[k].s \notin RESERVED_NAMES
          /\ ~HasSeparator(c[k].s)

----------------------------------------------------------------------------
(* Paths.  A path is the sequence of its components from the root.         *)

Cwd == <<"work">>

Last(p) == p[Len(p)]
Parent(p) == IF Len(p) = 0 THEN p ELSE SubSeq(p, 1, Len(p) - 1)

IsPrefix(a, b) == Len(a) <= Len(b) /\ SubSeq(b, 1, Len(a)) = a

\* Collapse "", "." and ".." components (Path.resolve, and what the kernel
\* does when it walks the path; the model has no symbolic links).
RECURSIVE NormFrom(_, _)
NormFrom(acc, rest) ==
    IF rest = <<>> THEN acc
    ELSE LET c == Head(rest) IN
         IF c = "" \/ c = "." THEN NormFrom(acc, Tail(rest))
         ELSE IF c = ".." THEN NormFrom(Parent(acc), Tail(rest))
         ELSE NormFrom(Append(acc, c), Tail(rest))

\* Path(...).resolve() of a path relative to the working directory
Resolve(rel) == NormFrom(Cwd, rel)

\* is_within(child, parent), both already resolved
is_within(child, parent) == IsPrefix(parent, child)

\* WormDemo._paths / sandbox_paths (relative, as the code keeps them)
SandboxRel  == <<cfg.sandbox.s>>
ReplicasRel == <<cfg.sandbox.s, cfg.replica_dir.s>>
MarkerRel   == <<cfg.sandbox.s, cfg.marker.s>>
HostsRel    == <<cfg.sandbox.s, cfg.hosts_root.s>>
LogRel      == <<cfg.sandbox.s, cfg.logfile.s>>

Sandbox  == Resolve(SandboxRel)
\* a replica directory that is the sandbox itself
Replicas_sandbox == Resolve(SandboxRel)
Replicas == Resolve(ReplicasRel)
Marker   == Resolve(MarkerRel)
HostsRoot == Resolve(HostsRel)
LogPath  == Resolve(LogRel)
Manifest == Resolve(<<cfg.sandbox.s, "manifest.json">>)

HostName(i) == "host_" \o ToString(i)
HostRepRel(i) == <<cfg.sandbox.s, cfg.hosts_root.s, HostName(i), cfg.replica_dir.s>>
HostRep(i) == Resolve(HostRepRel(i))

\* WormDemo._replica_name
replica_name(idx) == "w_copy_" \o ToString(idx) \o ".py"

\* the names the pattern w_copy_*.py matches, among the names that occur
ReplicaNames == {replica_name(k) : k \in 0..(MaxIdx + 1)}

TmpReplicaName(idx) == ".tmp_replica_" \o ToString(idx) \o ".py"
TmpHostName(i, idx) == ".tmp_host_" \o ToString(i) \o "_" \o ToString(idx) \o ".py"
NamedTemp(k) == "tmp" \o ToString(k)

\* Path(__file__).resolve()
ScriptPath(t) ==
    IF t = "v1.2" THEN Cwd \o <<"replicant_v1.2.py">>
    ELSE Cwd \o <<"legacy", "replicant_v1.1.py">>

----------------------------------------------------------------------------
(* File contents: sequences of chunks.                                      *)

SrcBytes(t) == <<t>>
RandLo == 10000
RandTokens == RandLo..(RandLo + MaxRand - 1)
Banner(r) == "# POLY:" \o ToString(r)

\* WormDemo._make_polymorph
make_polymorph(base, r) == base \o <<Banner(r)>>

MarkerInitText == <<"This STOP file prevents replication", ToString(cfg.limit.n)>>
MarkerCleanupText == <<"STOP">>
ManifestText == <<"manifest", ToString(cfg.limit.n)>>
NoteText == <<"Hello from the harmless demo payload. Stay safe.">>
LogText == <<"log">>

----------------------------------------------------------------------------
(* File-system calls, as functions of the file system f.                    *)

DirEntry == [kind |-> "dir", data |-> <<>>]
FileEntry(d) == [kind |-> "file", data |-> d]

Exists(f, p) == p \in DOMAIN f
IsDir(f, p) == p \in DOMAIN f /\ f[p].kind = "dir"
IsFile(f, p) == p \in DOMAIN f /\ f[p].kind = "file"

Prefixes(p) == {SubSeq(p, 1, k) : k \in 0..Len(p)}

\* mkdir(parents=True, exist_ok=True) succeeds
CanMkdirP(f, p) == \A q \in Prefixes(p) : q \in DOMAIN f => f[q].kind = "dir"
MkdirP(f, p) ==
    [q \in DOMAIN f \cup Prefixes(p) |-> IF q \in DOMAIN f THEN f[q] ELSE DirEntry]

\* open(p, "w"/"wb"/"a") succeeds: the parent is a directory, p is not one
CanOpenWrite(f, p) == IsDir(f, Parent(p)) /\ ~IsDir(f, p) /\ Len(p) > 0
\* open for writing: creates or truncates
OpenTrunc(f, p) == [q \in DOMAIN f \cup {p} |-> IF q = p THEN FileEntry(<<>>) ELSE f[q]]
\* open for appending: creates, keeps the content
OpenAppend(f, p, d) ==
    [q \in DOMAIN f \cup {p} |-> IF q = p /\ q \notin DOMAIN f THEN FileEntry(d) ELSE f[q]]
\* write the whole content to an open file; the name may have been unlinked
\* meanwhile, and then the bytes go to the orphaned inode
WriteAll(f, p, d) == IF IsFile(f, p) THEN [f EXCEPT ![p] = FileEntry(d)] ELSE f
\* write_text / write_bytes at once
WriteFile(f, p, d) == [q \in DOMAIN f \cup {p} |-> IF q = p THEN FileEntry(d) ELSE f[q]]

Unlink(f, p) == [q \in DOMAIN f \ {p} |-> f[q]]

\* os.replace(a, b): b now names a's file, a is gone
Replace(f, a, b) ==
    [q \in (DOMAIN f \ {a}) \cup {b} |-> IF q = b THEN f[a] ELSE f[q]]

Under(f, p) == {q \in DOMAIN f : IsPrefix(p, q) /\ q # p}
\* shutil.rmtree(p)
Rmtree(f, p) == [q \in DOMAIN f \ (Under(f, p) \cup {p}) |-> f[q]]
\* the entries of p removed, p itself left
RmContents(f, p) == [q \in DOMAIN f \ Under(f, p) |-> f[q]]

\* dir.glob("w_copy_*.py")
Glob(f, dir) ==
    {q \in DOMAIN f : Len(q) > 0 /\ Parent(q) = dir /\ Last(q) \in ReplicaNames}

\* hosts_root.glob("host_*")
HostDirs(f) ==
    {q \in DOMAIN f : Len(q) > 0 /\ Parent(q) = HostsRoot
                      /\ \E k \in 0..(HostCount + 1) : Last(q) = HostName(k)}

\* The checkout before anything ran: the working directory and the scripts.
Fs0 ==
    (<<>> :> DirEntry) @@ (Cwd :> DirEntry)
    @@ (ScriptPath("v1.2") :> FileEntry(SrcBytes("v1.2")))
    @@ ((Cwd \o <<"legacy">>) :> DirEntry)
    @@ (ScriptPath("v1.1") :> FileEntry(SrcBytes("v1.1")))

----------------------------------------------------------------------------
(* Processes.  One process per command line; pc "idle" is no process.      *)

NullLoc ==
    [cmd |-> "none", poly |-> FALSE, spread |-> FALSE, payload |-> FALSE,
     color |-> FALSE, idx |-> 0, data |-> <<>>, i |-> 0,
     src |-> <<>>, dst |-> <<>>, tmp |-> <<>>, ret |-> "none"]

NoReport == [printed |-> {}, stop |-> FALSE, limit |-> -1, replicas |-> -1, hosts |-> <<>>]

NoRes == [exit |-> -1, msg |-> "none", report |-> NoReport]

Goto(p, label) == pc' = [pc EXCEPT ![p] = label] /\ UNCHANGED res

\* the process ends: sys.exit(status), or main returns (status 0)
Exit(p, status, msg) ==
    /\ pc' = [pc EXCEPT ![p] = "done"]
    /\ res' = [res EXCEPT ![p] = [exit |-> status, msg |-> msg, report |-> NoReport]]

\* the elif chain of main
FirstLabel(cmd) ==
    CASE cmd = "init"    -> "i_mkdir"
      [] cmd = "demo"    -> "d_sandbox"
      [] cmd = "status"  -> "s_report"
      [] cmd = "cleanup" -> "c_marker"

\* main of replicant_v1.2: parse_args, validate_cfg, then WormDemo(CFG)
Start(p, cmd, poly, spread, payload, color) ==
    /\ tool = "v1.2"
    /\ pc[p] = "idle"
    /\ loc' = [loc EXCEPT ![p] = [NullLoc EXCEPT !.cmd = cmd, !.poly = poly,
                                     !.spread = spread, !.payload = payload,
                                     !.color = color]]
    /\ pre' = [pre EXCEPT ![p] = fs]
    /\ IF validate_cfg(cfg) THEN Goto(p, "ctor")
       ELSE Exit(p, 10, "Configuration error")
    /\ UNCHANGED <<env, fs, prev>>

\* WormDemo.__init__ -> _attach_file_logger: self.sandbox.mkdir(parents=True,
\* exist_ok=True), then logging.FileHandler(log_path) opens the log file for
\* appending; any exception is logged as a warning and swallowed
attach_file_logger(f) ==
    IF ~CanMkdirP(f, Sandbox) THEN f
    ELSE LET g == MkdirP(f, Sandbox)
         IN IF CanOpenWrite(g, LogPath) THEN OpenAppend(g, LogPath, LogText) ELSE g

Ctor(p) ==
    /\ pc[p] = "ctor"
    /\ fs' = attach_file_logger(fs)
    /\ Goto(p, FirstLabel(loc[p].cmd))
    /\ UNCHANGED <<env, loc, pre, prev>>

----------------------------------------------------------------------------
(* WormDemo.init; an OSError ends the process with status 1                *)

InitMkdir(p) ==
    /\ pc[p] = "i_mkdir"
    /\ IF CanMkdirP(fs, Sandbox)
       THEN fs' = MkdirP(fs, Sandbox) /\ Goto(p, "i_manifest")
       ELSE UNCHANGED fs /\ Exit(p, 1, "Init failed")
    /\ UNCHANGED <<env, loc, pre, prev>>

InitManifest(p) ==
    /\ pc[p] = "i_manifest"
    /\ IF CanOpenWrite(fs, Manifest)
       THEN fs' = WriteFile(fs, Manifest, ManifestText) /\ Goto(p, "i_marker")
       ELSE UNCHANGED fs /\ Exit(p, 1, "Init failed")
    /\ UNCHANGED <<env, loc, pre, prev>>

\* if not self.marker.exists(): self.marker.write_text(...)
InitMarker_skip(p) ==
    /\ pc[p] = "i_marker"
    /\ UNCHANGED fs /\ Goto(p, "i_hosts_root")
    /\ UNCHANGED <<env, loc, pre, prev>>

InitMarker(p) ==
    /\ pc[p] = "i_marker"
    /\ IF Exists(fs, Marker) THEN UNCHANGED fs /\ Goto(p, "i_hosts_root")
       ELSE IF CanOpenWrite(fs, Marker)
       THEN fs' = WriteFile(fs, Marker, MarkerInitText) /\ Goto(p, "i_hosts_root")
       ELSE UNCHANGED fs /\ Exit(p, 1, "Init failed")
    /\ UNCHANGED <<env, loc, pre, prev>>

\* a re-init that empties the mock hosts first
InitHostsRoot_reset(p) ==
    /\ pc[p] = "i_hosts_root"
    /\ fs' = MkdirP(Rmtree(fs, HostsRoot), HostsRoot)
    /\ loc' = [loc EXCEPT ![p].i = 1]
    /\ Goto(p, "i_host")
    /\ UNCHANGED <<env, pre, prev>>

\* (self.hosts_root).mkdir(parents=True, exist_ok=True)
InitHostsRoot(p) ==
    /\ pc[p] = "i_hosts_root"
    /\ IF CanMkdirP(fs, HostsRoot)
       THEN fs' = MkdirP(fs, HostsRoot) /\ loc' = [loc EXCEPT ![p].i = 1]
            /\ Goto(p, "i_host")
       ELSE UNCHANGED <<fs, loc>> /\ Exit(p, 1, "Init failed")
    /\ UNCHANGED <<env, pre, prev>>

\* for i in range(1, host_count + 1): (hosts_root/host_i/replica_dir).mkdir(...)
InitHost(p) ==
    /\ pc[p] = "i_host"
    /\ IF loc[p].i > cfg.host_count.n
       THEN UNCHANGED <<fs, loc>> /\ Exit(p, 0, "Sandbox ready")
       ELSE IF CanMkdirP(fs, HostRep(loc[p].i))
       THEN fs' = MkdirP(fs, HostRep(loc[p].i))
            /\ loc' = [loc EXCEPT ![p].i = @ + 1] /\ Goto(p, "i_host")
       ELSE UNCHANGED <<fs, loc>> /\ Exit(p, 1, "Init failed")
    /\ UNCHANGED <<env, pre, prev>>

----------------------------------------------------------------------------
(* WormDemo.demo; an OSError ends the process with status 4                *)

\* an index that counts from the number of replicas, reusing the last name
next_index_reuse(f) ==
    IF Glob(f, Replicas) = {} THEN 1 ELSE Cardinality(Glob(f, Replicas))

\* WormDemo._next_index
next_index(f) == Cardinality(Glob(f, Replicas)) + 1

\* if not self.sandbox.exists(): ... sys.exit(2)
DemoSandbox(p) ==
    /\ pc[p] = "d_sandbox"
    /\ IF ~Exists(fs, Sandbox) THEN Exit(p, 2, "Sandbox not initialized")
       ELSE Goto(p, "d_marker")
    /\ UNCHANGED <<env, fs, loc, pre, prev>>

\* a demo that does not look at the kill-switch
DemoMarker_ignore(p) ==
    /\ pc[p] = "d_marker"
    /\ Goto(p, "d_index")
    /\ UNCHANGED <<env, fs, loc, pre, prev>>

\* if self.marker.exists(): ... return
DemoMarker(p) ==
    /\ pc[p] = "d_marker"
    /\ IF Exists(fs, Marker) THEN Exit(p, 0, "STOP present; replication blocked")
       ELSE Goto(p, "d_index")
    /\ UNCHANGED <<env, fs, loc, pre, prev>>

\* idx = self._next_index(); dst = (...).resolve(); if is_within(dst, sandbox)
DemoIndex(p) ==
    /\ pc[p] = "d_index"
    /\ LET idx == next_index(fs)
           dst == Resolve(ReplicasRel \o <<replica_name(idx)>>)
       IN /\ loc' = [loc EXCEPT ![p].idx = idx, ![p].dst = dst]
          /\ IF is_within(dst, Sandbox) THEN Goto(p, "d_read")
             ELSE Exit(p, 0, "Replica destination escaped sandbox; replication aborted")
    /\ UNCHANGED <<env, fs, pre, prev>>

\* base = src_path.read_bytes(); data = self._make_polymorph(base) if polymorph else base
DemoRead(p) ==
    /\ pc[p] = "d_read"
    /\ IF ~IsFile(fs, ScriptPath(tool))
       THEN UNCHANGED loc /\ Exit(p, 4, "Replication failed")
       ELSE /\ \E r \in RandTokens :
                 /\ ~loc[p].poly => r = RandLo
                 /\ loc' = [loc EXCEPT ![p].data =
                              IF loc[p].poly
                              THEN make_polymorph(fs[ScriptPath(tool)].data, r)
                              ELSE fs[ScriptPath(tool)].data]
            /\ Goto(p, "d_tmp_open")
    /\ UNCHANGED <<env, fs, pre, prev>>

TmpSrc(p) == Resolve(SandboxRel \o <<TmpReplicaName(loc[p].idx)>>)
TmpHostSrc(p) == Resolve(SandboxRel \o <<TmpHostName(loc[p].i, loc[p].idx)>>)

\* tmp_src.write_bytes(data): open, which creates or truncates ...
DemoTmpOpen(p) ==
    /\ pc[p] = "d_tmp_open"
    /\ IF CanOpenWrite(fs, TmpSrc(p))
       THEN fs' = OpenTrunc(fs, TmpSrc(p)) /\ Goto(p, "d_tmp_write")
       ELSE UNCHANGED fs /\ Exit(p, 4, "Replication failed")
    /\ UNCHANGED <<env, loc, pre, prev>>

\* ... then write; self._atomic_write(tmp_src, dst) is entered
DemoTmpWrite(p) ==
    /\ pc[p] = "d_tmp_write"
    /\ fs' = WriteAll(fs, TmpSrc(p), loc[p].data)
    /\ loc' = [loc EXCEPT ![p].src = TmpSrc(p), ![p].ret = "primary"]
    /\ Goto(p, "aw_mkdir")
    /\ UNCHANGED <<env, pre, prev>>

\* _atomic_write: dst.parent.mkdir(parents=True, exist_ok=True)
AwMkdir(p) ==
    /\ pc[p] = "aw_mkdir"
    /\ IF CanMkdirP(fs, Parent(loc[p].dst))
       THEN fs' = MkdirP(fs, Parent(loc[p].dst)) /\ Goto(p, "aw_create")
       ELSE UNCHANGED fs /\ Exit(p, 4, "Replication failed")
    /\ UNCHANGED <<env, loc, pre, prev>>

\* the names NamedTemporaryFile may still pick in directory d
FreeTemps(f, d) == {k \in 1..MaxTmp : ~Exists(f, d \o <<NamedTemp(k)>>)}

\* where the temporary file of _atomic_write is created
TempPath_indst(f, dst) == dst

TempPath(f, dst) ==
    LET d == Parent(dst)
        k == CHOOSE k \in FreeTemps(f, d) : \A j \in FreeTemps(f, d) : k <= j
    IN d \o <<NamedTemp(k)>>

\* _atomic_write: tempfile.NamedTemporaryFile(dir=dst.parent, delete=False)
AwCreate(p) ==
    /\ pc[p] = "aw_create"
    /\ FreeTemps(fs, Parent(loc[p].dst)) # {}
    /\ LET tmp == TempPath(fs, loc[p].dst)
       IN /\ fs' = OpenTrunc(fs, tmp)
          /\ loc' = [loc EXCEPT ![p].tmp = tmp]
    /\ Goto(p, "aw_copy")
    /\ UNCHANGED <<env, pre, prev>>

\* _atomic_write: src.open("rb"), tmp.open("wb"), shutil.copyfileobj(s, d)
AwCopy(p) ==
    /\ pc[p] = "aw_copy"
    /\ IF IsFile(fs, loc[p].src) /\ CanOpenWrite(fs, loc[p].tmp)
       THEN fs' = WriteFile(fs, loc[p].tmp, fs[loc[p].src].data) /\ Goto(p, "aw_replace")
       ELSE UNCHANGED fs /\ Exit(p, 4, "Replication failed")
    /\ UNCHANGED <<env, loc, pre, prev>>

\* _atomic_write: os.replace(tmp, dst)
AwReplace(p) ==
    /\ pc[p] = "aw_replace"
    /\ IF IsFile(fs, loc[p].tmp) /\ CanOpenWrite(fs, loc[p].dst)
       THEN fs' = Replace(fs, loc[p].tmp, loc[p].dst)
            /\ Goto(p, CASE loc[p].ret = "primary" -> "d_unlink"
                          [] loc[p].ret = "host"    -> "h_unlink"
                          [] OTHER                  -> "vd_sha")
       ELSE UNCHANGED fs /\ Exit(p, 4, "Replication failed")
    /\ UNCHANGED <<env, loc, pre, prev>>

\* tmp_src.unlink(missing_ok=True)
DemoUnlink(p) ==
    /\ pc[p] = "d_unlink"
    /\ fs' = Unlink(fs, TmpSrc(p))
    /\ Goto(p, "d_sha")
    /\ UNCHANGED <<env, loc, pre, prev>>

\* logger.info(f"src sha256={sha256(src_path)}   dst sha256={sha256(dst)}")
DemoSha(p) ==
    /\ pc[p] = "d_sha"
    /\ IF IsFile(fs, ScriptPath(tool)) /\ IsFile(fs, loc[p].dst)
       THEN Goto(p, "d_payload")
       ELSE Exit(p, 4, "Replication failed")
    /\ UNCHANGED <<env, fs, loc, pre, prev>>

\* a payload that writes no note
payload_none(f, dir) == f

\* WormDemo._payload: a failure is a warning
payload(f, dir) ==
    IF CanOpenWrite(f, dir \o <<"friendly_note.txt">>)
    THEN WriteFile(f, dir \o <<"friendly_note.txt">>, NoteText)
    ELSE f

\* if payload: self._payload(self.replicas)
DemoPayload(p) ==
    /\ pc[p] = "d_payload"
    /\ fs' = IF loc[p].payload THEN payload(fs, Replicas) ELSE fs
    /\ Goto(p, "d_spread")
    /\ UNCHANGED <<env, loc, pre, prev>>

\* if simulate_spread and self.cfg["host_count"] > 0: for i in range(1, ...)
DemoSpread(p) ==
    /\ pc[p] = "d_spread"
    /\ IF loc[p].spread /\ cfg.host_count.n > 0
       THEN loc' = [loc EXCEPT ![p].i = 1] /\ Goto(p, "h_within")
       ELSE UNCHANGED loc /\ Exit(p, 0, "Replicated")
    /\ UNCHANGED <<env, fs, pre, prev>>

\* loop head, and: if not is_within(host_rep_dir, self.sandbox): ... continue
HostWithin(p) ==
    /\ pc[p] = "h_within"
    /\ IF loc[p].i > cfg.host_count.n
       THEN UNCHANGED loc /\ Exit(p, 0, "Replicated")
       ELSE IF ~is_within(HostRep(loc[p].i), Sandbox)
       THEN loc' = [loc EXCEPT ![p].i = @ + 1] /\ Goto(p, "h_within")
       ELSE UNCHANGED loc /\ Goto(p, "h_tmp_open")
    /\ UNCHANGED <<env, fs, pre, prev>>

\* tmp_host_src.write_bytes(data): open ...
HostTmpOpen(p) ==
    /\ pc[p] = "h_tmp_open"
    /\ IF CanOpenWrite(fs, TmpHostSrc(p))
       THEN fs' = OpenTrunc(fs, TmpHostSrc(p)) /\ Goto(p, "h_tmp_write")
       ELSE UNCHANGED fs /\ Exit(p, 4, "Replication failed")
    /\ UNCHANGED <<env, loc, pre, prev>>

\* ... then write; self._atomic_write(tmp_host_src, host_dst) is entered
HostTmpWrite(p) ==
    /\ pc[p] = "h_tmp_write"
    /\ fs' = WriteAll(fs, TmpHostSrc(p), loc[p].data)
    /\ loc' = [loc EXCEPT ![p].src = TmpHostSrc(p), ![p].ret = "host",
                          ![p].dst = HostRep(loc[p].i) \o <<replica_name(loc[p].idx)>>]
    /\ Goto(p, "aw_mkdir")
    /\ UNCHANGED <<env, pre, prev>>

\* tmp_host_src.unlink(missing_ok=True)
HostUnlink(p) ==
    /\ pc[p] = "h_unlink"
    /\ fs' = Unlink(fs, TmpHostSrc(p))
    /\ Goto(p, "h_payload")
    /\ UNCHANGED <<env, loc, pre, prev>>

\* if payload: self._payload(host_rep_dir); next host
HostPayload(p) ==
    /\ pc[p] = "h_payload"
    /\ fs' = IF loc[p].payload THEN payload(fs, HostRep(loc[p].i)) ELSE fs
    /\ loc' = [loc EXCEPT ![p].i = @ + 1]
    /\ Goto(p, "h_within")
    /\ UNCHANGED <<env, pre, prev>>

----------------------------------------------------------------------------
(* WormDemo.status                                                          *)

\* what status prints about an existing sandbox; with colorama importable
\* only the first branch of the if runs
StatusReport(f, color) ==
    IF color
    THEN [NoReport EXCEPT !.printed = {"stop"}, !.stop = Exists(f, Marker)]
    ELSE [printed  |-> {"stop", "limit", "replicas"}
                       \cup (IF Exists(f, HostsRoot) THEN {"hosts"} ELSE {}),
          stop     |-> Exists(f, Marker),
          limit    |-> cfg.limit.n,
          replicas |-> IF Exists(f, Replicas) THEN Cardinality(Glob(f, Replicas)) ELSE 0,
          hosts    |-> IF Exists(f, HostsRoot)
                       THEN [h \in HostDirs(f) |->
                               LET rep == NormFrom(h, <<cfg.replica_dir.s>>)
                               IN IF Exists(f, rep) THEN Cardinality(Glob(f, rep)) ELSE 0]
                       ELSE <<>>]

Status(p) ==
    /\ pc[p] = "s_report"
    /\ pc' = [pc EXCEPT ![p] = "done"]
    /\ res' = [res EXCEPT ![p] =
                 IF ~Exists(fs, Sandbox)
                 THEN [exit |-> 0, msg |-> "Status: sandbox not initialized.",
                       report |-> NoReport]
                 ELSE [exit |-> 0, msg |-> "=== STATUS ===",
                       report |-> StatusReport(fs, loc[p].color)]]
    /\ UNCHANGED <<env, fs, loc, pre, prev>>

----------------------------------------------------------------------------
(* WormDemo.cleanup; an OSError ends the process with status 5             *)

NotDot(c) == c \notin {"", "."}
\* rmtree empties the directory and then cannot rmdir a path that ends in
\* ".." or is "."
RmdirRefused(rel) ==
    LET lex == SelectSeq(rel, NotDot)
    IN lex = <<>> \/ Last(lex) = ".."

\* a cleanup that leaves the marker as it is
CleanupMarker_skip(p) ==
    /\ pc[p] = "c_marker"
    /\ UNCHANGED fs /\ Goto(p, "c_rm_replicas")
    /\ UNCHANGED <<env, loc, pre, prev>>

\* self.marker.write_text("STOP\n")
CleanupMarker(p) ==
    /\ pc[p] = "c_marker"
    /\ IF CanOpenWrite(fs, Marker)
       THEN fs' = WriteFile(fs, Marker, MarkerCleanupText) /\ Goto(p, "c_rm_replicas")
       ELSE UNCHANGED fs /\ Exit(p, 5, "Cleanup failed")
    /\ UNCHANGED <<env, loc, pre, prev>>

\* a cleanup that leaves the replicas
CleanupReplicas_skip(p) ==
    /\ pc[p] = "c_rm_replicas"
    /\ UNCHANGED fs /\ Goto(p, "c_rm_hosts")
    /\ UNCHANGED <<env, loc, pre, prev>>

\* if self.replicas.exists(): shutil.rmtree(self.replicas)
CleanupReplicas(p) ==
    /\ pc[p] = "c_rm_replicas"
    /\ IF ~Exists(fs, Replicas) THEN UNCHANGED fs /\ Goto(p, "c_rm_hosts")
       ELSE IF IsFile(fs, Replicas) THEN UNCHANGED fs /\ Exit(p, 5, "Cleanup failed")
       ELSE IF RmdirRefused(ReplicasRel)
       THEN fs' = RmContents(fs, Replicas) /\ Exit(p, 5, "Cleanup failed")
       ELSE fs' = Rmtree(fs, Replicas) /\ Goto(p, "c_rm_hosts")
    /\ UNCHANGED <<env, loc, pre, prev>>

\* a cleanup that leaves the mock hosts
CleanupHosts_skip(p) ==
    /\ pc[p] = "c_rm_hosts"
    /\ UNCHANGED fs /\ Exit(p, 0, "Cleanup done. STOP restored.")
    /\ UNCHANGED <<env, loc, pre, prev>>

\* if self.hosts_root.exists(): shutil.rmtree(self.hosts_root)
CleanupHosts(p) ==
    /\ pc[p] = "c_rm_hosts"
    /\ IF ~Exists(fs, HostsRoot)
       THEN UNCHANGED fs /\ Exit(p, 0, "Cleanup done. STOP restored.")
       ELSE IF IsFile(fs, HostsRoot) THEN UNCHANGED fs /\ Exit(p, 5, "Cleanup failed")
       ELSE IF RmdirRefused(HostsRel)
       THEN fs' = RmContents(fs, HostsRoot) /\ Exit(p, 5, "Cleanup failed")
       ELSE fs' = Rmtree(fs, HostsRoot) /\ Goto(p, "c_mk_hosts")
    /\ UNCHANGED <<env, loc, pre, prev>>

\* self.hosts_root.mkdir(parents=True, exist_ok=True)
CleanupMkHosts(p) ==
    /\ pc[p] = "c_mk_hosts"
    /\ IF CanMkdirP(fs, HostsRoot)
       THEN fs' = MkdirP(fs, HostsRoot) /\ Exit(p, 0, "Cleanup done. STOP restored.")
       ELSE UNCHANGED fs /\ Exit(p, 5, "Cleanup failed")
    /\ UNCHANGED <<env, loc, pre, prev>>

----------------------------------------------------------------------------
(* The shell around the invocations                                         *)

\* the process is gone; the user is back at the prompt
Finish(p) ==
    /\ pc[p] = "done"
    /\ pc' = [pc EXCEPT ![p] = "idle"]
    /\ loc' = [loc EXCEPT ![p] = NullLoc]
    /\ res' = [res EXCEPT ![p] = NoRes]
    /\ pre' = [pre EXCEPT ![p] = <<>>]
    /\ prev' = (loc[p].cmd = "cleanup" /\ res[p].exit = 0)
    /\ UNCHANGED <<env, fs>>

\* runbook step 2: rm sandbox_w/STOP
UserRemoveMarker ==
    /\ \A p \in Procs : pc[p] = "idle"
    /\ IsFile(fs, Marker)
    /\ fs' = Unlink(fs, Marker)
    /\ prev' = FALSE
    /\ UNCHANGED <<env, pc, loc, res, pre>>

\* a demo is started only while the next index stays within the model
DemoInBounds == Exists(fs, Marker) \/ Cardinality(Glob(fs, Replicas)) < MaxIdx

\* python replicant_v1.2.py --init | --demo [...] | --status | --cleanup
Invoke(p) ==
    \/ Start(p, "init", FALSE, FALSE, FALSE, FALSE)
    \/ \E poly, spread, pay \in BOOLEAN :
          DemoInBounds /\ Start(p, "demo", poly, spread, pay, FALSE)
    \/ \E color \in BOOLEAN : Start(p, "status", FALSE, FALSE, FALSE, color)
    \/ Start(p, "cleanup", FALSE, FALSE, FALSE, FALSE)

\* the steps of init, of the primary write of demo, of _atomic_write, of the
\* host loop of demo, and of cleanup
InitStep(p) ==
    InitMkdir(p) \/ InitManifest(p) \/ InitMarker(p) \/ InitHostsRoot(p) \/ InitHost(p)

DemoStep(p) ==
    \/ DemoSandbox(p) \/ DemoMarker(p) \/ DemoIndex(p) \/ DemoRead(p)
    \/ DemoTmpOpen(p) \/ DemoTmpWrite(p)
    \/ DemoUnlink(p) \/ DemoSha(p) \/ DemoPayload(p) \/ DemoSpread(p)

AwStep(p) == AwMkdir(p) \/ AwCreate(p) \/ AwCopy(p) \/ AwReplace(p)

HostStep(p) ==
    HostWithin(p) \/ HostTmpOpen(p) \/ HostTmpWrite(p) \/ HostUnlink(p) \/ HostPayload(p)

CleanupStep(p) ==
    CleanupMarker(p) \/ CleanupReplicas(p) \/ CleanupHosts(p) \/ CleanupMkHosts(p)

\* one step of a running replicant_v1.2 process
Step(p) ==
    \/ Ctor(p)
    \/ InitStep(p)
    \/ DemoStep(p) \/ AwStep(p) \/ HostStep(p)
    \/ Status(p)
    \/ CleanupStep(p)
    \/ Finish(p)

IdleState ==
    /\ pc = [p \in Procs |-> "idle"]
    /\ loc = [p \in Procs |-> NullLoc]
    /\ res = [p \in Procs |-> NoRes]
    /\ pre = [p \in Procs |-> <<>>]
    /\ prev = FALSE

(* Spec: replicant_v1.2 with the configuration of the source, one command  *)
(* line at a time, no I/O failure.                                          *)
Init ==
    /\ tool = "v1.2"
    /\ cfg = CFG
    /\ fs = Fs0
    /\ faulted = FALSE
    /\ IdleState

Next == Invoke(1) \/ Step(1) \/ UserRemoveMarker

Spec == Init /\ [][Next]_vars

----------------------------------------------------------------------------
(* legacy/replicant_v1.1.py.  Its atomic_copy is the code of _atomic_write, *)
(* and runs the steps AwMkdir .. AwReplace above.                           *)

V11Keys == {"sandbox", "replica_dir", "marker"}

\* validate_config: TRUE iff no ValueError is raised
validate_config(c) ==
    /\ c.limit.t = "int" /\ c.limit.n >= 0
    /\ \A k \in V11Keys :
          CASE c[k].t = "str" -> c[k].s # "" /\ ~HasSeparator(c[k].s)
            [] c[k].t = "int" -> c[k].n # 0
            [] OTHER          -> FALSE

\* add_file_logger: logging.FileHandler(logfile); a failure is a warning
add_file_logger(f) ==
    IF CanOpenWrite(f, LogPath) THEN OpenAppend(f, LogPath, LogText) ELSE f

V11First(cmd) ==
    CASE cmd = "init"    -> "vi_mkdir"
      [] cmd = "demo"    -> "vd_sandbox"
      [] cmd = "status"  -> "vs_report"
      [] cmd = "cleanup" -> "vc_sandbox"

\* main of replicant_v1.1
V11Start(p, cmd) ==
    /\ tool = "v1.1"
    /\ pc[p] = "idle"
    /\ loc' = [loc EXCEPT ![p] = [NullLoc EXCEPT !.cmd = cmd]]
    /\ pre' = [pre EXCEPT ![p] = fs]
    /\ IF validate_config(cfg) THEN Goto(p, V11First(cmd))
       ELSE Exit(p, 10, "Configuration error")
    /\ UNCHANGED <<env, fs, prev>>

\* cmd_init: sandbox.mkdir(parents=True, exist_ok=True); add_file_logger(sandbox)
V11InitMkdir(p) ==
    /\ pc[p] = "vi_mkdir"
    /\ IF CanMkdirP(fs, Sandbox)
       THEN fs' = add_file_logger(MkdirP(fs, Sandbox)) /\ Goto(p, "vi_marker")
       ELSE UNCHANGED fs /\ Exit(p, 1, "Traceback")
    /\ UNCHANGED <<env, loc, pre, prev>>

\* cmd_init: if not marker.exists(): marker.write_text(...)
V11InitMarker(p) ==
    /\ pc[p] = "vi_marker"
    /\ IF Exists(fs, Marker) THEN UNCHANGED fs /\ Goto(p, "vi_manifest")
       ELSE IF CanOpenWrite(fs, Marker)
       THEN fs' = WriteFile(fs, Marker, MarkerInitText) /\ Goto(p, "vi_manifest")
       ELSE UNCHANGED fs /\ Exit(p, 1, "Init failed")
    /\ UNCHANGED <<env, loc, pre, prev>>

\* cmd_init: (sandbox / "manifest.json").write_text(...)
V11InitManifest(p) ==
    /\ pc[p] = "vi_manifest"
    /\ IF CanOpenWrite(fs, Manifest)
       THEN fs' = WriteFile(fs, Manifest, ManifestText) /\ Exit(p, 0, "Sandbox ready")
       ELSE UNCHANGED fs /\ Exit(p, 1, "Init failed")
    /\ UNCHANGED <<env, loc, pre, prev>>

\* cmd_demo: if not sandbox.exists(): sys.exit(2); add_file_logger(sandbox)
V11DemoSandbox(p) ==
    /\ pc[p] = "vd_sandbox"
    /\ IF ~Exists(fs, Sandbox)
       THEN UNCHANGED fs /\ Exit(p, 2, "Sandbox not initialized")
       ELSE fs' = add_file_logger(fs) /\ Goto(p, "vd_marker")
    /\ UNCHANGED <<env, loc, pre, prev>>

\* cmd_demo: if marker.exists(): return
V11DemoMarker(p) ==
    /\ pc[p] = "vd_marker"
    /\ IF Exists(fs, Marker) THEN Exit(p, 0, "STOP present; replication blocked")
       ELSE Goto(p, "vd_mkdir")
    /\ UNCHANGED <<env, fs, loc, pre, prev>>

\* cmd_demo: replicas.mkdir(parents=True, exist_ok=True), outside the try
V11DemoMkdir(p) ==
    /\ pc[p] = "vd_mkdir"
    /\ IF CanMkdirP(fs, Replicas)
       THEN fs' = MkdirP(fs, Replicas) /\ Goto(p, "vd_index")
       ELSE UNCHANGED fs /\ Exit(p, 1, "Traceback")
    /\ UNCHANGED <<env, loc, pre, prev>>

\* a cmd_demo without the limit check
V11DemoIndex_nolimit(p) ==
    /\ pc[p] = "vd_index"
    /\ LET idx == Cardinality(Glob(fs, Replicas)) + 1
           dst == Resolve(ReplicasRel \o <<replica_name(idx)>>)
       IN /\ loc' = [loc EXCEPT ![p].idx = idx, ![p].dst = dst,
                                ![p].src = ScriptPath(tool), ![p].ret = "v11",
                                ![p].data = SrcBytes(tool)]
          /\ Goto(p, "aw_mkdir")
    /\ UNCHANGED <<env, fs, pre, prev>>

\* cmd_demo: idx = len(existing) + 1; the limit check; the confinement check
V11DemoIndex(p) ==
    /\ pc[p] = "vd_index"
    /\ LET idx == Cardinality(Glob(fs, Replicas)) + 1
           dst == Resolve(ReplicasRel \o <<replica_name(idx)>>)
       IN IF idx > cfg.limit.n
          THEN UNCHANGED loc /\ Exit(p, 0, "Replication limit reached; no action taken.")
          ELSE IF ~is_within(dst, Sandbox)
          THEN UNCHANGED loc /\ Exit(p, 3, "Refusing to write outside sandbox.")
          ELSE /\ loc' = [loc EXCEPT ![p].idx = idx, ![p].dst = dst,
                                     ![p].src = ScriptPath(tool), ![p].ret = "v11",
                                     ![p].data = SrcBytes(tool)]
               /\ Goto(p, "aw_mkdir")
    /\ UNCHANGED <<env, fs, pre, prev>>

\* cmd_demo: sha256(src), sha256(dst)
V11DemoSha(p) ==
    /\ pc[p] = "vd_sha"
    /\ IF IsFile(fs, ScriptPath(tool)) /\ IsFile(fs, loc[p].dst)
       THEN Exit(p, 0, "Replicated")
       ELSE Exit(p, 4, "Copy failed")
    /\ UNCHANGED <<env, fs, loc, pre, prev>>

\* cmd_status
V11Status(p) ==
    /\ pc[p] = "vs_report"
    /\ pc' = [pc EXCEPT ![p] = "done"]
    /\ IF ~Exists(fs, Sandbox)
       THEN /\ UNCHANGED fs
            /\ res' = [res EXCEPT ![p] = [exit |-> 0, report |-> NoReport,
                                          msg |-> "Status: sandbox not initialized."]]
       ELSE /\ fs' = add_file_logger(fs)
            /\ res' = [res EXCEPT ![p] =
                 [exit |-> 0, msg |-> "=== STATUS ===",
                  report |-> [printed  |-> {"stop", "limit", "replicas"},
                              stop     |-> Exists(fs, Marker),
                              limit    |-> cfg.limit.n,
                              replicas |-> IF Exists(fs, Replicas)
                                           THEN Cardinality(Glob(fs, Replicas)) ELSE 0,
                              hosts    |-> <<>>]]]
    /\ UNCHANGED <<env, loc, pre, prev>>

\* cmd_cleanup: if not sandbox.exists(): return; add_file_logger(sandbox)
V11CleanupSandbox(p) ==
    /\ pc[p] = "vc_sandbox"
    /\ IF ~Exists(fs, Sandbox)
       THEN UNCHANGED fs /\ Exit(p, 0, "Nothing to clean.")
       ELSE fs' = add_file_logger(fs) /\ Goto(p, "vc_marker")
    /\ UNCHANGED <<env, loc, pre, prev>>

\* cmd_cleanup: marker.write_text("STOP\n")
V11CleanupMarker(p) ==
    /\ pc[p] = "vc_marker"
    /\ IF CanOpenWrite(fs, Marker)
       THEN fs' = WriteFile(fs, Marker, MarkerCleanupText) /\ Goto(p, "vc_rm")
       ELSE UNCHANGED fs /\ Exit(p, 5, "Cleanup failed")
    /\ UNCHANGED <<env, loc, pre, prev>>

\* cmd_cleanup: if replicas.exists(): shutil.rmtree(replicas)
V11CleanupReplicas(p) ==
    /\ pc[p] = "vc_rm"
    /\ IF ~Exists(fs, Replicas)
       THEN UNCHANGED fs /\ Exit(p, 0, "Cleanup complete")
       ELSE IF IsFile(fs, Replicas) THEN UNCHANGED fs /\ Exit(p, 5, "Cleanup failed")
       ELSE IF RmdirRefused(ReplicasRel)
       THEN fs' = RmContents(fs, Replicas) /\ Exit(p, 5, "Cleanup failed")
       ELSE fs' = Rmtree(fs, Replicas) /\ Exit(p, 0, "Cleanup complete")
    /\ UNCHANGED <<env, loc, pre, prev>>

\* python replicant_v1.1.py --init | --demo | --status | --cleanup
V11Invoke(p) ==
    \E cmd \in {"init", "demo", "status", "cleanup"} : V11Start(p, cmd)

V11InitStep(p) == V11InitMkdir(p) \/ V11InitMarker(p) \/ V11InitManifest(p)

V11DemoStep(p) ==
    \/ V11DemoSandbox(p) \/ V11DemoMarker(p) \/ V11DemoMkdir(p) \/ V11DemoIndex(p)
    \/ V11DemoSha(p)

V11CleanupStep(p) == V11CleanupSandbox(p) \/ V11CleanupMarker(p) \/ V11CleanupReplicas(p)

\* one step of a running replicant_v1.1 process; atomic_copy and the end of
\* the process are the steps AwStep and Finish
V11Step(p) ==
    \/ V11InitStep(p)
    \/ V11DemoStep(p)
    \/ V11Status(p)
    \/ V11CleanupStep(p)

----------------------------------------------------------------------------
(* Faults: the process is interrupted between two file-system calls, or a  *)
(* file-system call raises OSError.  A behaviour has at most one fault.    *)

\* the status the except clause of the running command exits with
FailExit(cmd) ==
    CASE cmd = "init"    -> 1
      [] cmd = "demo"    -> 4
      [] cmd = "cleanup" -> 5
      [] OTHER           -> 1

\* positions whose file-system call sits in a try ... except (OSError, IOError)
\* that ends the process; vi_mkdir and vd_mkdir are outside any try, and the
\* traceback ends the process with status 1
CaughtLabels ==
    {"i_mkdir", "i_manifest", "i_marker", "i_hosts_root", "i_host",
     "d_read", "d_tmp_open", "d_tmp_write", "aw_mkdir", "aw_create", "aw_copy",
     "aw_replace", "d_unlink", "d_sha", "h_tmp_open", "h_tmp_write", "h_unlink",
     "c_marker", "c_mk_hosts",
     "vi_marker", "vi_manifest", "vd_sha", "vc_marker"}
UncaughtLabels == {"vi_mkdir", "vd_mkdir"}

\* SIGINT / SIGKILL: the process is gone, the file system stays as it is
Interrupt(p) ==
    /\ ~faulted
    /\ pc[p] \notin {"idle", "done"}
    /\ faulted' = TRUE
    /\ Exit(p, 130, "interrupted")
    /\ UNCHANGED <<tool, cfg, fs, loc, pre, prev>>

\* the file-system call at pc[p] raises OSError and the except clause exits
IOFail(p) ==
    /\ ~faulted
    /\ pc[p] \in CaughtLabels \cup UncaughtLabels
    /\ faulted' = TRUE
    /\ IF pc[p] \in UncaughtLabels THEN Exit(p, 1, "Traceback")
       ELSE Exit(p, FailExit(loc[p].cmd), "failed")
    /\ UNCHANGED <<tool, cfg, fs, loc, pre, prev>>

\* the directory shutil.rmtree is about to remove
RmTarget(p) == IF pc[p] = "c_rm_hosts" THEN HostsRoot ELSE Replicas

\* shutil.rmtree raises after it has removed one entry (with what is below it),
\* or before it has removed anything
RmtreeFail(p) ==
    /\ ~faulted
    /\ pc[p] \in {"c_rm_replicas", "c_rm_hosts", "vc_rm"}
    /\ IsDir(fs, RmTarget(p))
    /\ faulted' = TRUE
    /\ \/ UNCHANGED fs
       \/ \E q \in Under(fs, RmTarget(p)) : fs' = Rmtree(fs, q)
    /\ Exit(p, 5, "Cleanup failed in rmtree")
    /\ UNCHANGED <<tool, cfg, loc, pre, prev>>

\* an exception the code swallows: the payload note is not written, the log
\* file is not attached; the process goes on
SwallowedFail(p) ==
    /\ ~faulted
    /\ pc[p] \in {"ctor", "d_payload", "h_payload"}
    /\ pc[p] # "ctor" => loc[p].payload
    /\ faulted' = TRUE
    /\ CASE pc[p] = "ctor"      -> UNCHANGED loc /\ Goto(p, FirstLabel(loc[p].cmd))
         [] pc[p] = "d_payload" -> UNCHANGED loc /\ Goto(p, "d_spread")
         [] pc[p] = "h_payload" -> loc' = [loc EXCEPT ![p].i = @ + 1] /\ Goto(p, "h_within")
    /\ UNCHANGED <<tool, cfg, fs, pre, prev>>

Fault(p) == Interrupt(p) \/ IOFail(p) \/ RmtreeFail(p) \/ SwallowedFail(p)

(* SpecFail: either script with the configuration of the source, one       *)
(* command line at a time, with at most one fault.                          *)
InitFail ==
    /\ tool \in {"v1.1", "v1.2"}
    /\ cfg = CFG
    /\ fs = Fs0
    /\ faulted = FALSE
    /\ IdleState

\* python replicant_v1.2.py --init | --demo [--simulate-spread [--payload]] |
\* --status | --cleanup
InvokeFail(p) ==
    \/ \E cmd \in {"init", "status", "cleanup"} : Start(p, cmd, FALSE, FALSE, FALSE, FALSE)
    \/ \E spread \in BOOLEAN :
          DemoInBounds /\ Start(p, "demo", FALSE, spread, spread, FALSE)

NextFail ==
    \/ InvokeFail(1) \/ Step(1)
    \/ V11Invoke(1) \/ V11Step(1)
    \/ UserRemoveMarker
    \/ Fault(1)

SpecFail == InitFail /\ [][NextFail]_vars

----------------------------------------------------------------------------
(* SpecCfg: replicant_v1.2 run with an edited CFG dictionary, one command  *)
(* line at a time, no I/O failure other than what the paths themselves     *)
(* cause.                                                                   *)

\* the names an edited field takes: the parent-directory name, the empty
\* string, a reserved device name, names with a separator
CfgNames == {"..", "", "CON", "a/b", "a\\b"}

\* the values an edited field takes: those names, a missing key, and integers
\* inside and outside the ranges validate_cfg looks at
CfgValues == {StrVal(v) : v \in CfgNames} \cup {NoneVal, IntVal(0), IntVal(-1), IntVal(11)}

\* the dictionary of the source, with at most one field edited
CfgSet == {CFG} \cup {[CFG EXCEPT ![k] = v] : k \in DOMAIN CFG, v \in CfgValues}

InitCfg ==
    /\ tool = "v1.2"
    /\ cfg \in CfgSet
    /\ fs = Fs0
    /\ faulted = FALSE
    /\ IdleState

NextCfg == InvokeFail(1) \/ Step(1) \/ UserRemoveMarker

SpecCfg == InitCfg /\ [][NextCfg]_vars

----------------------------------------------------------------------------
(* SpecConc: the configuration of the source; init and the removal of the  *)
(* marker happen while nothing else runs, and then two --demo command      *)
(* lines run at once, their file-system calls interleaved.                  *)

Quiet == \A q \in Procs : pc[q] = "idle"

\* two demos are started at once only while the limit leaves room for a replica
ConcInBounds == Exists(fs, Marker) \/ Cardinality(Glob(fs, Replicas)) < Limit

\* python replicant_v1.2.py --init | --demo [--polymorph]
InvokeConc(p) ==
    \/ Quiet /\ p = 1 /\ Start(p, "init", FALSE, FALSE, FALSE, FALSE)
    \/ \E poly \in BOOLEAN : ConcInBounds /\ Start(p, "demo", poly, FALSE, FALSE, FALSE)

\* python replicant_v1.1.py --init | --demo; cmd_demo bounds the index itself
V11InvokeConc(p) ==
    \/ Quiet /\ p = 1 /\ V11Start(p, "init")
    \/ V11Start(p, "demo")

InitConc ==
    /\ tool \in {"v1.1", "v1.2"}
    /\ cfg = CFG
    /\ fs = Fs0
    /\ faulted = FALSE
    /\ IdleState

NextConc ==
    \/ \E p \in Procs :
          \/ InvokeConc(p) \/ Ctor(p) \/ InitStep(p) \/ DemoStep(p)
          \/ V11InvokeConc(p) \/ V11InitStep(p) \/ V11DemoStep(p)
          \/ AwStep(p) \/ Finish(p)
    \/ UserRemoveMarker

SpecConc == InitConc /\ [][NextConc]_vars

----------------------------------------------------------------------------
(* Vocabulary of the properties                                             *)

\* the part of file system f at and below d
TreeUnder(f, d) == [q \in {q \in DOMAIN f : IsPrefix(d, q)} |-> f[q]]
\* the files of f below d, with their contents
FilesUnder(f, d) ==
    [q \in {q \in DOMAIN f : IsPrefix(d, q) /\ f[q].kind = "file"} |-> f[q]]

\* the replicas in the primary replica directory, and in the mock hosts
PrimaryReplicas(f) == Glob(f, Replicas)
HostReplicas(f) ==
    {q \in DOMAIN f : IsPrefix(HostsRoot, q) /\ q # HostsRoot /\ Last(q) \in ReplicaNames}

Invoked(p, cmd) == pc[p] # "idle" /\ loc[p].cmd = cmd
Ended(p, cmd) == pc[p] = "done" /\ loc[p].cmd = cmd

----------------------------------------------------------------------------
(* Properties of replicant_v1.2, one command line at a time                 *)

\* C1: a demo invoked while the STOP marker exists returns normally as
\* "blocked" whatever its options, and at no step creates or changes anything
\* in the replica directory or in the mock hosts.
C1_StopBlocksDemo ==
    \A p \in Procs :
        (tool = "v1.2" /\ Invoked(p, "demo") /\ Exists(pre[p], Marker)) =>
            /\ TreeUnder(fs, Replicas) = TreeUnder(pre[p], Replicas)
            /\ TreeUnder(fs, HostsRoot) = TreeUnder(pre[p], HostsRoot)
            /\ pc[p] = "done" =>
                  /\ res[p].exit = 0
                  /\ res[p].msg = "STOP present; replication blocked"

C1_Witness ==
    \E p \in Procs :
        /\ tool = "v1.2" /\ Ended(p, "demo") /\ Exists(pre[p], Marker)
        /\ loc[p].poly /\ loc[p].spread /\ loc[p].payload
        /\ PrimaryReplicas(fs) # {} /\ HostReplicas(fs) # {}

\* C2: the number of w_copy_*.py files in the replica directory never exceeds
\* the configured limit.
C2_LimitRespected ==
    tool = "v1.2" => Cardinality(PrimaryReplicas(fs)) <= cfg.limit.n

\* C3: a demo invoked while the sandbox directory does not exist ends with
\* exit status 2 and creates no replica.
C3_DemoNeedsInit ==
    \A p \in Procs :
        (tool = "v1.2" /\ Ended(p, "demo") /\ ~Exists(pre[p], Sandbox)) =>
            /\ res[p].exit = 2
            /\ PrimaryReplicas(fs) = {}

\* C7: a cleanup that ends with status 0 leaves the STOP marker present and no
\* replica in the replica directory or in any mock host, so status then reports
\* the kill-switch present and zero replicas; run right after a successful
\* cleanup, it leaves the file system as it found it.
C7_CleanupResets ==
    \A p \in Procs :
        (tool = "v1.2" /\ Ended(p, "cleanup") /\ res[p].exit = 0) =>
            /\ Exists(fs, Marker)
            /\ PrimaryReplicas(fs) = {}
            /\ HostReplicas(fs) = {}
            /\ StatusReport(fs, TRUE).stop
            /\ LET r == StatusReport(fs, FALSE)
               IN r.stop /\ r.replicas = 0 /\ \A h \in DOMAIN r.hosts : r.hosts[h] = 0
            /\ prev => fs = pre[p]

C7_Witness ==
    \E p \in Procs :
        /\ tool = "v1.2" /\ Ended(p, "cleanup") /\ res[p].exit = 0
        /\ ~Exists(pre[p], Marker)
        /\ Cardinality(PrimaryReplicas(pre[p])) >= 2
        /\ HostReplicas(pre[p]) # {}

\* C9: an init that ends with status 0 leaves the STOP marker present, whether
\* the sandbox was absent, the marker present or the marker removed before it;
\* status then reports the kill-switch present.
C9_InitArmsStop ==
    \A p \in Procs :
        (tool = "v1.2" /\ Ended(p, "init") /\ res[p].exit = 0) =>
            /\ Exists(fs, Marker)
            /\ StatusReport(fs, TRUE).stop
            /\ StatusReport(fs, FALSE).stop

C9_Witness ==
    \E p \in Procs :
        /\ tool = "v1.2" /\ Ended(p, "init") /\ res[p].exit = 0
        /\ Exists(pre[p], Sandbox) /\ ~Exists(pre[p], Marker)

\* C10: at every step of an init the files in the replica directory and in the
\* mock hosts are those that were there when it started, with the same contents.
C10_InitKeepsReplicas ==
    \A p \in Procs :
        (tool = "v1.2" /\ Invoked(p, "init")) =>
            /\ FilesUnder(fs, Replicas) = FilesUnder(pre[p], Replicas)
            /\ FilesUnder(fs, HostsRoot) = FilesUnder(pre[p], HostsRoot)

C10_Witness ==
    \E p \in Procs :
        /\ tool = "v1.2" /\ Ended(p, "init") /\ res[p].exit = 0
        /\ PrimaryReplicas(pre[p]) # {} /\ HostReplicas(pre[p]) # {}

----------------------------------------------------------------------------
(* Properties of both scripts under interrupts and I/O errors (SpecFail)    *)

\* what a demo may intend to write: the source, or the source and one banner
IsComplete(d) ==
    \/ d = SrcBytes(tool)
    \/ \E r \in RandTokens : d = make_polymorph(SrcBytes(tool), r)

\* C6: with one command line at a time, at every step of a demo and after an
\* interrupt or I/O error at any step, every file under a replica name holds a
\* complete content, and the destination of the running (or interrupted) demo
\* is absent, or holds exactly the content that demo set out to write, or is
\* still the complete file that was there when the demo started.
C6_ReplicaAbsentOrComplete ==
    /\ \A q \in DOMAIN fs :
          (fs[q].kind = "file" /\ Last(q) \in ReplicaNames) => IsComplete(fs[q].data)
    /\ \A p \in Procs :
          (Invoked(p, "demo") /\ loc[p].dst # <<>> /\ Exists(fs, loc[p].dst)) =>
              \/ fs[loc[p].dst] = FileEntry(loc[p].data)
              \/ /\ Exists(pre[p], loc[p].dst)
                 /\ fs[loc[p].dst] = pre[p][loc[p].dst]

C6_Witness ==
    \E p \in Procs :
        /\ Ended(p, "demo") /\ res[p].msg = "interrupted"
        /\ IsFile(fs, loc[p].tmp) /\ fs[loc[p].tmp].data = <<>>
        /\ ~Exists(fs, loc[p].dst)

\* something that existed when the invocation started is gone
Removed(p) == \E q \in DOMAIN pre[p] : q \notin DOMAIN fs

\* C8: in every state in which a cleanup (of either script) has removed
\* something, and in every state left by a cleanup whose rmtree failed, the
\* STOP marker exists.
C8_MarkerBeforeRemoval ==
    \A p \in Procs :
        (Invoked(p, "cleanup") /\ (Removed(p) \/ res[p].msg = "Cleanup failed in rmtree")) =>
            IsFile(fs, Marker)

C8_Witness ==
    \E p \in Procs :
        /\ Ended(p, "cleanup") /\ res[p].msg = "Cleanup failed in rmtree"
        /\ ~Exists(pre[p], Marker)
        /\ Removed(p)
        /\ PrimaryReplicas(fs) # {} \/ HostReplicas(fs) # {}

----------------------------------------------------------------------------
(* Properties of replicant_v1.2 under edited configurations (SpecCfg)       *)

\* C4: under every configuration validate_cfg accepts, at every step of init,
\* demo and cleanup, what exists outside the sandbox root is exactly what
\* existed there before the tool first ran: nothing created, nothing removed.
C4_ConfinedToSandbox ==
    validate_cfg(cfg) =>
        \A q \in DOMAIN fs \cup DOMAIN Fs0 :
            ~IsPrefix(Sandbox, q) => (q \in DOMAIN fs /\ q \in DOMAIN Fs0)

----------------------------------------------------------------------------
(* Properties of concurrent demo invocations (SpecConc)                     *)

\* C5: with two replicant_v1.2 demo invocations running at once, every file
\* under a replica name in the replica directory holds a complete content one
\* of them set out to write: never empty, truncated or mixed.
C5_ConcurrentReplicasComplete ==
    tool = "v1.2" =>
        \A q \in PrimaryReplicas(fs) :
            fs[q].kind = "file" => IsComplete(fs[q].data)

----------------------------------------------------------------------------
(* Further properties of replicant_v1.2, one command line at a time (Spec)  *)

\* the name demo gives its primary replica
PrimaryDst(p) == Resolve(ReplicasRel \o <<replica_name(loc[p].idx)>>)

\* C11: the replica names in the replica directory are exactly those of the
\* indices 1..n for some n >= 0; a demo that has computed its index writes to a
\* name that did not exist when it started, and to index 1 when it started
\* with no replica (as after a cleanup).
C11_IndicesContiguous ==
    tool = "v1.2" =>
        /\ \E n \in 0..(MaxIdx + 1) :
              {Last(q) : q \in PrimaryReplicas(fs)} = {replica_name(k) : k \in 1..n}
        /\ \A p \in Procs :
              (Invoked(p, "demo") /\ loc[p].idx # 0) =>
                  /\ ~Exists(pre[p], PrimaryDst(p))
                  /\ PrimaryReplicas(pre[p]) = {} => loc[p].idx = 1

C11_Witness ==
    \E p \in Procs :
        /\ tool = "v1.2" /\ Ended(p, "demo") /\ res[p].msg = "Replicated"
        /\ loc[p].idx = 2
        /\ Cardinality(PrimaryReplicas(fs)) = 2

----------------------------------------------------------------------------
(* Further properties under interrupts and I/O errors (SpecFail)            *)

\* C12: a demo with simulate_spread on that has entered the host loop and is
\* not killed ends with exit status 0 after it has gone through every host,
\* whatever I/O error a host write met.
C12_HostFailureSkipped ==
    \A p \in Procs :
        (tool = "v1.2" /\ Ended(p, "demo") /\ loc[p].spread /\ loc[p].i >= 1
           /\ res[p].msg # "interrupted") =>
            /\ res[p].exit = 0
            /\ loc[p].i = cfg.host_count.n + 1

----------------------------------------------------------------------------
(* Further properties under edited configurations (SpecCfg)                 *)

\* C13: a demo whose primary destination fails the confinement check ends with
\* an exit status that is not 0 and is none of 2 (not initialized), 4 (I/O
\* failure) and 10 (configuration error).
C13_ConfinementExit ==
    \A p \in Procs :
        (tool = "v1.2" /\ Ended(p, "demo") /\ loc[p].idx # 0
           /\ ~is_within(PrimaryDst(p), Sandbox)) =>
            res[p].exit \notin {0, 2, 4, 10}

----------------------------------------------------------------------------
(* Properties of status (Spec)                                              *)

\* what a status invocation must leave as it is: the sandbox directory, the
\* marker, the manifest, the replicas and the host directories
Watched(f) ==
    {q \in DOMAIN f : \/ q \in {Sandbox, Marker, Manifest}
                      \/ q \in PrimaryReplicas(f) \cup HostReplicas(f)
                      \/ q \in HostDirs(f)}

\* C14: at every step of a --status invocation the sandbox directory, the
\* marker, the manifest, the replicas and the host directories that exist are
\* those that existed when it started, and a status started without a sandbox
\* reports "not initialized".
C14_StatusReadOnly ==
    \A p \in Procs :
        (tool = "v1.2" /\ Invoked(p, "status")) =>
            /\ Watched(fs) = Watched(pre[p])
            /\ (pc[p] = "done" /\ ~Exists(pre[p], Sandbox)) =>
                  res[p].msg = "Status: sandbox not initialized."

\* C15: a status on an existing sandbox prints the kill-switch presence, the
\* limit, the replica count and, when the hosts root exists, each host's
\* replica count, each equal to what is on disk, with and without the colour
\* renderer.
C15_StatusReportsDisk ==
    \A p \in Procs :
        (tool = "v1.2" /\ Ended(p, "status") /\ res[p].msg = "=== STATUS ===") =>
            LET r == res[p].report IN
            /\ {"stop", "limit", "replicas"} \subseteq r.printed
            /\ r.stop = Exists(fs, Marker)
            /\ r.limit = cfg.limit.n
            /\ r.replicas = Cardinality(PrimaryReplicas(fs))
            /\ Exists(fs, HostsRoot) =>
                  /\ "hosts" \in r.printed
                  /\ DOMAIN r.hosts = HostDirs(fs)
                  /\ \A h \in HostDirs(fs) :
                        r.hosts[h] = Cardinality({q \in HostReplicas(fs) : IsPrefix(h, q)})

\* C16: validate_cfg rejects the configuration (exit status 10) if and only
\* if it is not the case that limit is an integer >= 0, host_count is an
\* integer in 0..10, and each of the five names is a non-empty string without
\* '/' or '\' that is not a reserved device name.
C16_ValidateCfgIff ==
    LET NameOk(v) == /\ v.t = "str" /\ v.s # ""
                     /\ ~HasSeparator(v.s) /\ v.s \notin RESERVED_NAMES
        Accepts == /\ cfg.limit.t = "int" /\ cfg.limit.n >= 0
                   /\ cfg.host_count.t = "int" /\ cfg.host_count.n \in 0..10
                   /\ \A k \in NameKeys : NameOk(cfg[k])
    IN \A p \in Procs :
           (tool = "v1.2" /\ pc[p] # "idle") => (res[p].exit = 10 <=> ~Accepts)

----------------------------------------------------------------------------
(* Properties of the replica contents (Spec)                                *)

\* C17: a replica written with polymorph off holds the source bytes, one
\* written with polymorph on holds the source bytes followed by one banner,
\* and any two replicas of the replica directory that carry a banner differ.
C17_PolymorphDistinct ==
    tool = "v1.2" =>
        /\ \A p \in Procs :
              (Ended(p, "demo") /\ res[p].msg = "Replicated" /\ IsFile(fs, PrimaryDst(p))) =>
                  IF loc[p].poly
                  THEN \E r \in RandTokens :
                          fs[PrimaryDst(p)].data = SrcBytes(tool) \o <<Banner(r)>>
                  ELSE fs[PrimaryDst(p)].data = SrcBytes(tool)
        /\ \A q1, q2 \in PrimaryReplicas(fs) :
              (q1 # q2 /\ fs[q1].data # SrcBytes(tool) /\ fs[q2].data # SrcBytes(tool)) =>
                  fs[q1].data # fs[q2].data

\* the replicas in the replica directory of mock host i
HostReplicasOf(f, i) == Glob(f, HostRep(i))
Note(dir) == dir \o <<"friendly_note.txt">>

\* C18: a demo with simulate_spread and payload on that started without the
\* marker and ended with "Replicated" has added exactly one replica and the
\* note to the replica directory and, for every host 1..host_count, one
\* replica of the same index and content and the note to that host's replica
\* directory; when it started with no replica anywhere, status then reports
\* one replica and one replica for each host.
C18_SpreadAndPayload ==
    \A p \in Procs :
        (tool = "v1.2" /\ Ended(p, "demo") /\ res[p].msg = "Replicated"
           /\ loc[p].spread /\ loc[p].payload /\ ~Exists(pre[p], Marker)) =>
            LET dst == PrimaryDst(p)
                H == cfg.host_count.n
                hdst(i) == HostRep(i) \o <<replica_name(loc[p].idx)>>
            IN /\ ~Exists(pre[p], dst)
               /\ PrimaryReplicas(fs) = PrimaryReplicas(pre[p]) \cup {dst}
               /\ IsFile(fs, dst)
               /\ \A q \in PrimaryReplicas(pre[p]) : fs[q] = pre[p][q]
               /\ IsFile(fs, Note(Replicas)) /\ fs[Note(Replicas)].data = NoteText
               /\ \A i \in 1..H :
                     /\ ~Exists(pre[p], hdst(i))
                     /\ HostReplicasOf(fs, i) = HostReplicasOf(pre[p], i) \cup {hdst(i)}
                     /\ IsFile(fs, hdst(i)) /\ fs[hdst(i)] = fs[dst]
                     /\ IsFile(fs, Note(HostRep(i)))
                     /\ fs[Note(HostRep(i))].data = NoteText
               /\ (PrimaryReplicas(pre[p]) = {} /\ HostReplicas(pre[p]) = {}) =>
                     LET r == StatusReport(fs, FALSE)
                     IN /\ r.replicas = 1
                        /\ DOMAIN r.hosts = {HostsRoot \o <<HostName(i)>> : i \in 1..H}
                        /\ \A h \in DOMAIN r.hosts : r.hosts[h] = 1

C18_Witness ==
    \E p \in Procs :
        /\ tool = "v1.2" /\ Ended(p, "demo") /\ res[p].msg = "Replicated"
        /\ loc[p].spread /\ loc[p].payload /\ ~loc[p].poly
        /\ Exists(pre[p], Manifest) /\ ~Exists(pre[p], Marker)
        /\ PrimaryReplicas(pre[p]) = {} /\ HostReplicas(pre[p]) = {}
        /\ \A i \in 1..cfg.host_count.n : IsDir(pre[p], HostRep(i))
        /\ cfg.host_count.n >= 2

----------------------------------------------------------------------------
(* Temporary files and the marker under interrupts and I/O errors (SpecFail) *)

\* the names demo and _atomic_write give their temporary files
TempNames ==
    {TmpReplicaName(k) : k \in 0..(MaxIdx + 1)}
    \cup {TmpHostName(i, k) : i \in 0..(HostCount + 1), k \in 0..(MaxIdx + 1)}
    \cup {NamedTemp(k) : k \in 1..MaxTmp}

\* the temporary files in the sandbox
TempFiles(f) == {q \in DOMAIN f : IsPrefix(Sandbox, q) /\ q # Sandbox /\ Last(q) \in TempNames}

\* C19: after a demo that ended with exit status 0 no temporary file it wrote
\* remains in the sandbox, and after a cleanup that ended with exit status 0
\* no temporary file remains in the sandbox at all.
C19_NoTempSurvives ==
    \A p \in Procs :
        tool = "v1.2" =>
            /\ (Ended(p, "demo") /\ res[p].exit = 0) => TempFiles(fs) \subseteq TempFiles(pre[p])
            /\ (Ended(p, "cleanup") /\ res[p].exit = 0) => TempFiles(fs) = {}

\* C20: under the configuration of the source no step of an init, demo,
\* status or cleanup of replicant_v1.2, completed, failed or interrupted, takes
\* the STOP marker away: the only step from a state with the marker to a state
\* without it is the removal by hand.
C20_OnlyUserRemovesMarker ==
    [][(tool = "v1.2" /\ Exists(fs, Marker) /\ ~Exists(fs', Marker)) => UserRemoveMarker]_vars

C20_Witness ==
    \E p \in Procs :
        /\ tool = "v1.2" /\ Ended(p, "cleanup") /\ res[p].exit = 0
        /\ Exists(pre[p], Marker) /\ PrimaryReplicas(pre[p]) # {}
        /\ PrimaryReplicas(fs) = {} /\ Exists(fs, Marker)

----------------------------------------------------------------------------
(* Properties of concurrent cmd_demo invocations of replicant_v1.1 (SpecConc) *)

\* C21: with replicant_v1.1, whatever the number of demo invocations and the
\* interleaving of two running at once, the replica directory holds at most
\* limit replicas and each has an index in 1..limit.
C21_V11LimitHolds ==
    tool = "v1.1" =>
        /\ Cardinality(PrimaryReplicas(fs)) <= cfg.limit.n
        /\ \A q \in PrimaryReplicas(fs) :
              Last(q) \in {replica_name(k) : k \in 1..cfg.limit.n}

C21_Witness ==
    /\ tool = "v1.1"
    /\ \A p \in Procs :
          /\ Ended(p, "demo") /\ res[p].msg = "Replicated"
          /\ \A q \in Procs : loc[q].idx = loc[p].idx
    /\ Cardinality(PrimaryReplicas(fs)) = cfg.limit.n

----------------------------------------------------------------------------
(* Host replicas of replicant_v1.2, one command line at a time (Spec)       *)

\* C22: between invocations and at every step of an init, demo or status, the
\* replica names in each mock host's replica directory are among those of the
\* replica directory, and every per-host count status reports is at most the
\* replica count it reports.
C22_HostIndicesSubset ==
    (tool = "v1.2" /\ \A p \in Procs : ~Invoked(p, "cleanup") \/ pc[p] = "done") =>
        /\ \A i \in 1..cfg.host_count.n :
              {Last(q) : q \in HostReplicasOf(fs, i)} \subseteq {Last(q) : q \in PrimaryReplicas(fs)}
        /\ Exists(fs, Sandbox) =>
              LET r == StatusReport(fs, FALSE)
              IN \A h \in DOMAIN r.hosts : r.hosts[h] <= r.replicas

C22_Witness ==
    /\ tool = "v1.2" /\ Quiet
    /\ Cardinality(PrimaryReplicas(fs)) = 2
    /\ \A i \in 1..cfg.host_count.n : Cardinality(HostReplicasOf(fs, i)) = 1

====
